---- MODULE Spec2Model ----
(***************************************************************************)
(* Model of vocos/discriminators.py: the period sub-discriminator          *)
(* (DiscriminatorP), the resolution sub-discriminator (DiscriminatorR) and *)
(* the two ensembles built from them (MultiPeriodDiscriminator,            *)
(* MultiResolutionDiscriminator).                                          *)
(*                                                                         *)
(* Tensors are nested sequences indexed from 1: a (B, T) waveform batch is *)
(* x[b][t], a (B, C, H, W) activation is x[b][c][i][j].  Activations are   *)
(* integers in fixed point: leaky_relu with slope 1/10 is computed times   *)
(* 10, so the activation after conv layer l is stored in units of 10^-l    *)
(* and every bias is scaled to the unit of the layer it is added in.       *)
(***************************************************************************)
EXTENDS Integers, Sequences, FiniteSets, TLC

\* ------------------------------------------------------------------ bounds
\* longest waveform drawn as an input
MaxT == 5
\* largest batch size drawn as an input
MaxBatch == 2
\* num_embeddings passed to the constructor of a conditional ensemble
NumEmbeddings == 2
\* channel width of the conv stacks (the source uses 32..1024 and 64)
NumCh == 2
\* number of optimizer steps applied to the embedding tables
MaxSteps == 1

\* ------------------------------------------------------- program constants
kernel_size == 5
stride == 3
\* lrelu_slope = 0.1 = lrelu_num / lrelu_den
lrelu_num == 1
lrelu_den == 10
\* number of conv layers in self.convs of either sub-discriminator
NumConvs == 5

\* Python's None: an absent optional value; Some(v) is a present one.  A
\* tensor or table that is present is a non-empty sequence and stands for
\* itself.
None == <<>>
Some(v) == <<v>>

\* --------------------------------------------------------- tensor helpers
\* f[lo] + ... + f[hi]
RECURSIVE Sum(_, _, _)
Sum(f, lo, hi) == IF lo > hi THEN 0 ELSE f[lo] + Sum(f, lo + 1, hi)

Max(a, b) == IF a >= b THEN a ELSE b
Min(a, b) == IF a <= b THEN a ELSE b
Abs(a) == IF a >= 0 THEN a ELSE -a

RECURSIVE Pow(_, _)
Pow(a, n) == IF n = 0 THEN 1 ELSE a * Pow(a, n - 1)

\* the concrete sequence of the n values E(1), ..., E(n)
Vector(n, E(_)) == [i \in 1..n |-> E(i)] \o <<>>

\* the concrete (B, C, H, W) tensor of the values E(b, c, i, j)
Tensor4(B, C, H, W, E(_, _, _, _)) ==
    Vector(B, LAMBDA b : Vector(C, LAMBDA c : Vector(H, LAMBDA i :
        Vector(W, LAMBDA j : E(b, c, i, j)))))

\* extents of a (B, C, H, W) tensor
Chan(x) == Len(x[1])
Rows(x) == Len(x[1][1])
Cols(x) == Len(x[1][1][1])

\* an exception raised by the tensor framework or by attribute lookup
Failure(e) == [ok |-> FALSE, error |-> e]

\* ------------------------------------------------------ framework: F.pad
\* F.pad(x, (0, n_pad), "reflect") is defined only for n_pad < t
ReflectDefined(t, n_pad) == n_pad < t

\* a right padding that mirrors about the edge and so repeats the last sample
PadSymmetricRight(row, n_pad) ==
    Vector(Len(row) + n_pad,
           LAMBDA i : IF i <= Len(row) THEN row[i] ELSE row[Len(row) - (i - Len(row)) + 1])

\* the right reflect padding of one row: the edge sample is not repeated
PadReflectRight(row, n_pad) ==
    Vector(Len(row) + n_pad,
           LAMBDA i : IF i <= Len(row) THEN row[i] ELSE row[Len(row) - (i - Len(row))])

\* the left reflect padding of one row (used by the centered STFT)
PadReflectLeft(row, n_pad) ==
    Vector(Len(row) + n_pad,
           LAMBDA i : IF i > n_pad THEN row[i - n_pad] ELSE row[(n_pad - i) + 2])

\* ------------------------------------------------------ framework: conv2d
\* output extent of a convolution along one axis
ConvOut(n, k, s, p) == ((n + 2 * p - k) \div s) + 1

\* the kernel taps 1..k of the window starting at input offset r0 that fall
\* on the input 1..n; the others fall on the zero padding and add 0
TapLo(r0) == Max(1, 1 - r0)
TapHi(r0, k, n) == Min(k, n - r0)

\* effective (weight-normalised) kernel of conv layer l of member m; the
\* members are independently parameterised, so the kernel depends on m
Weight(m, l, o, c, a, d) == ((m * m + l * o + 2 * c + a * a + d + o * a) % 3) - 1

\* bias of output channel o of conv layer l of member m
Bias(m, l, o) == ((m + l * o) % 3) - 1

\* x :: (B, Cin, H, W) -> (B, cout, H', W') with zero padding; unit is the
\* fixed-point unit of the input, in which the bias is expressed
Conv2d(x, m, l, cout, kernel, strd, padding, unit) ==
    LET H == Rows(x)
        W == Cols(x)
    IN Tensor4(Len(x), cout,
               ConvOut(H, kernel[1], strd[1], padding[1]),
               ConvOut(W, kernel[2], strd[2], padding[2]),
               LAMBDA b, o, i, j :
                  LET r0 == (i - 1) * strd[1] - padding[1]
                      q0 == (j - 1) * strd[2] - padding[2]
                  IN Bias(m, l, o) * unit
                     + Sum([c \in 1..Chan(x) |->
                         Sum([a \in TapLo(r0)..TapHi(r0, kernel[1], H) |->
                           Sum([d \in TapLo(q0)..TapHi(q0, kernel[2], W) |->
                                  Weight(m, l, o, c, a, d) * x[b][c][r0 + a][q0 + d]],
                               TapLo(q0), TapHi(q0, kernel[2], W))],
                             TapLo(r0), TapHi(r0, kernel[1], H))],
                           1, Chan(x)))

\* F.leaky_relu(v, lrelu_slope), times lrelu_den
LeakyRelu(v) == IF v >= 0 THEN v * lrelu_den ELSE v * lrelu_num

LeakyReluT(x) ==
    Tensor4(Len(x), Chan(x), Rows(x), Cols(x), LAMBDA b, c, i, j : LeakyRelu(x[b][c][i][j]))

\* torch.flatten(x, 1, -1) :: (B, C, H, W) -> (B, C*H*W), row-major
Flatten(x) ==
    LET H == Rows(x)
        W == Cols(x)
    IN Vector(Len(x), LAMBDA b :
         Vector(Chan(x) * H * W, LAMBDA n :
            x[b][((n - 1) \div (H * W)) + 1]
                [(((n - 1) % (H * W)) \div W) + 1]
                [((n - 1) % W) + 1]))

\* ------------------------------------------------- conditioning (shared)
\* two extents broadcast against each other iff equal or one of them is 1
Broadcastable(n, k) == n = k \/ n = 1 \/ k = 1

\* an embedding table left at the framework's default, non-zero, init
OnesEmbedding(num_embeddings, dim) ==
    Vector(num_embeddings, LAMBDA e : Vector(dim, LAMBDA c : 1))

\* torch.nn.init.zeros_(self.emb.weight) :: (num_embeddings, embedding_dim)
ZeroEmbedding(num_embeddings, dim) ==
    Vector(num_embeddings, LAMBDA e : Vector(dim, LAMBDA c : 0))

\* emb = self.emb(cond_embedding_id) :: (L, dim); ids are 0-based rows
EmbRows(d, cond_embedding_id) ==
    Vector(Len(cond_embedding_id), LAMBDA n : d.emb[cond_embedding_id[n] + 1])

\* a bias that takes the activation of batch element 1 for every element
BiasOf_first(emb, x) ==
    LET dim == Len(emb[1])
        C == Chan(x)
        flat == Vector(Len(emb) * dim,
                       LAMBDA n : emb[((n - 1) \div dim) + 1][((n - 1) % dim) + 1])
    IN IF ~Broadcastable(Len(flat), C) THEN Failure("RuntimeError: broadcast")
       ELSE [ok |-> TRUE, tensor |-> TRUE,
             h |-> Tensor4(Len(x), 1, Rows(x), Cols(x), LAMBDA b, o, i, j :
                     Sum([ch \in 1..Max(Len(flat), C) |->
                            flat[IF Len(flat) = 1 THEN 1 ELSE ch]
                            * x[1][IF C = 1 THEN 1 ELSE ch][i][j]],
                         1, Max(Len(flat), C)))]

\* h = (emb.view(1, -1, 1, 1) * x).sum(dim=1, keepdims=True), with x the
\* last activation (B, C, H, W)
BiasOf(emb, x) ==
    LET dim == Len(emb[1])
        C == Chan(x)
        \* emb.view(1, -1, 1, 1) :: (1, L*dim, 1, 1)
        flat == Vector(Len(emb) * dim,
                       LAMBDA n : emb[((n - 1) \div dim) + 1][((n - 1) % dim) + 1])
    IN IF ~Broadcastable(Len(flat), C) THEN Failure("RuntimeError: broadcast")
       ELSE [ok |-> TRUE, tensor |-> TRUE,
             \* (flat * x).sum(dim=1, keepdims=True) :: (B, 1, H, W)
             h |-> Tensor4(Len(x), 1, Rows(x), Cols(x), LAMBDA b, o, i, j :
                     Sum([ch \in 1..Max(Len(flat), C) |->
                            flat[IF Len(flat) = 1 THEN 1 ELSE ch]
                            * x[b][IF C = 1 THEN 1 ELSE ch][i][j]],
                         1, Max(Len(flat), C)))]

\* h = 0: the bias of an unconditional pass is the Python int 0
NoBias == [ok |-> TRUE, tensor |-> FALSE, h |-> 0]

\* a conditioning that demands an id whenever self.emb exists
CondBias_strict(d, x, cond_embedding_id) ==
    IF cond_embedding_id = None
    THEN (IF d.emb = None THEN NoBias ELSE Failure("TypeError: missing id"))
    ELSE IF d.emb = None THEN Failure("AttributeError: emb")
    ELSE IF ~(\A n \in 1..Len(cond_embedding_id) :
                cond_embedding_id[n] >= 0 /\ cond_embedding_id[n] < Len(d.emb))
         THEN Failure("IndexError: index out of range")
    ELSE BiasOf(EmbRows(d, cond_embedding_id), x)

\* a conditioning that ignores the id when self.emb does not exist
CondBias_lenient(d, x, cond_embedding_id) ==
    IF cond_embedding_id = None \/ d.emb = None THEN NoBias
    ELSE IF ~(\A n \in 1..Len(cond_embedding_id) :
                cond_embedding_id[n] >= 0 /\ cond_embedding_id[n] < Len(d.emb))
         THEN Failure("IndexError: index out of range")
    ELSE BiasOf(EmbRows(d, cond_embedding_id), x)

\* the bias term h of one forward pass.  d.emb is None when the member was
\* built without num_embeddings: self.emb does not exist then, and reading
\* it raises.  x is the last activation (B, C, H, W).
CondBias(d, x, cond_embedding_id) ==
    IF cond_embedding_id = None THEN NoBias
    ELSE IF d.emb = None THEN Failure("AttributeError: emb")
    ELSE IF ~(\A n \in 1..Len(cond_embedding_id) :
                cond_embedding_id[n] >= 0 /\ cond_embedding_id[n] < Len(d.emb))
         THEN Failure("IndexError: index out of range")
    ELSE BiasOf(EmbRows(d, cond_embedding_id), x)

\* x += h.  Tensor.__iadd__ writes into the tensor object x names, which is
\* the object fmap's last entry already references; h = 0 adds nothing.
AddBias(x, bias) ==
    IF ~bias.tensor THEN x
    ELSE Tensor4(Len(x), Chan(x), Rows(x), Cols(x),
                 LAMBDA b, c, i, j : x[b][c][i][j] + bias.h[b][c][i][j])

\* --------------------------------------------------------- DiscriminatorP
\* a conv stack whose strided layers use stride 2
DP_convs_stride2 ==
    [l \in 1..NumConvs |->
        [cout |-> NumCh,
         kernel |-> <<kernel_size, 1>>,
         strd |-> IF l < NumConvs THEN <<2, 1>> ELSE <<1, 1>>,
         padding |-> <<kernel_size \div 2, 0>>]]

\* self.convs of DiscriminatorP: kernel, stride, padding of the five layers
DP_convs ==
    [l \in 1..NumConvs |->
        [cout |-> NumCh,
         kernel |-> <<kernel_size, 1>>,
         strd |-> IF l < NumConvs THEN <<stride, 1>> ELSE <<1, 1>>,
         padding |-> <<kernel_size \div 2, 0>>]]

\* self.conv_post of DiscriminatorP
DP_conv_post == [cout |-> 1, kernel |-> <<3, 1>>, strd |-> <<1, 1>>, padding |-> <<1, 0>>]

DiscriminatorP_init(period, num_embeddings, m) ==
    [cls |-> "P", id |-> m, period |-> period,
     emb |-> IF num_embeddings = None THEN None
             ELSE ZeroEmbedding(num_embeddings[1], NumCh)]

\* x.view(b, c, t // period, period) after x.unsqueeze(1)
ViewPeriod(x, period) ==
    Tensor4(Len(x), 1, Len(x[1]) \div period, period,
            LAMBDA b, c, f, j : x[b][(f - 1) * period + j])

\* a pad amount that forgets to subtract from the period
DP_n_pad_mod(t, period) == t % period

\* n_pad of the tail padding of DiscriminatorP.forward; x :: (B, T)
DP_n_pad(t, period) == period - (t % period)

\* the tail padding of DiscriminatorP.forward

DP_pad(x, period) ==
    LET t == Len(x[1])
    IN IF t % period # 0
       THEN Vector(Len(x), LAMBDA b : PadReflectRight(x[b], DP_n_pad(t, period)))
       ELSE x

\* t // self.period after the tail padding: the frame count of the view
DP_frames(t, period) ==
    (IF t % period # 0 THEN t + DP_n_pad(t, period) ELSE t) \div period

\* the frame count after the layers i.. of convs applied to n frames
RECURSIVE ConvFrames(_, _, _)
ConvFrames(convs, n, i) ==
    IF i > Len(convs) THEN n
    ELSE ConvFrames(convs, ConvOut(n, convs[i].kernel[1], convs[i].strd[1], convs[i].padding[1]),
                    i + 1)

\* the length of one row of the score of DiscriminatorP.forward on (B, t):
\* frames and period axis after self.convs and self.conv_post, flattened
DP_score_len(t, period) ==
    ConvOut(ConvFrames(DP_convs, DP_frames(t, period), 1),
            DP_conv_post.kernel[1], DP_conv_post.strd[1], DP_conv_post.padding[1])
    * ConvOut(period, DP_conv_post.kernel[2], DP_conv_post.strd[2], DP_conv_post.padding[2])

\* RECURSIVE declarations of the two conv loops of DiscriminatorP
RECURSIVE DP_conv_loop_all(_, _, _, _)
RECURSIVE DP_conv_loop(_, _, _, _)

\* a loop that records the first activation too
DP_conv_loop_all(d, x, fmap, i) ==
    IF i > Len(DP_convs) THEN [x |-> x, fmap |-> fmap]
    ELSE LET c == DP_convs[i]
             x1 == LeakyReluT(Conv2d(x, d.id, i, c.cout, c.kernel, c.strd, c.padding,
                                     Pow(lrelu_den, i - 1)))
         IN DP_conv_loop_all(d, x1, Append(fmap, x1), i + 1)

\* the loop over self.convs: fmap collects every activation but the first
DP_conv_loop(d, x, fmap, i) ==
    IF i > Len(DP_convs) THEN [x |-> x, fmap |-> fmap]
    ELSE LET c == DP_convs[i]
             x1 == LeakyReluT(Conv2d(x, d.id, i, c.cout, c.kernel, c.strd, c.padding,
                                     Pow(lrelu_den, i - 1)))
         IN DP_conv_loop(d, x1, IF i > 1 THEN Append(fmap, x1) ELSE fmap, i + 1)

DiscriminatorP_forward(d, x, cond_embedding_id) ==
    LET t == Len(x[1])
    IN IF t % d.period # 0 /\ ~ReflectDefined(t, DP_n_pad(t, d.period))
       THEN Failure("RuntimeError: reflect pad")
       ELSE
       LET cv == DP_conv_loop(d, ViewPeriod(DP_pad(x, d.period), d.period), <<>>, 1)
           bias == CondBias(d, cv.x, cond_embedding_id)
       IN IF ~bias.ok THEN bias
          ELSE
          LET post == Conv2d(cv.x, d.id, NumConvs + 1, DP_conv_post.cout, DP_conv_post.kernel,
                             DP_conv_post.strd, DP_conv_post.padding, Pow(lrelu_den, NumConvs))
              xb == AddBias(post, bias)
          IN [ok |-> TRUE, score |-> Flatten(xb), fmap |-> Append(cv.fmap, xb)]

\* --------------------------------------------------------- DiscriminatorR
\* self.convs of DiscriminatorR: kernel_size=3 is (3, 3), padding=1 is (1, 1)
DR_convs ==
    << [cout |-> NumCh, kernel |-> <<7, 5>>, strd |-> <<2, 2>>, padding |-> <<3, 2>>],
       [cout |-> NumCh, kernel |-> <<5, 3>>, strd |-> <<2, 1>>, padding |-> <<2, 1>>],
       [cout |-> NumCh, kernel |-> <<5, 3>>, strd |-> <<2, 2>>, padding |-> <<2, 1>>],
       [cout |-> NumCh, kernel |-> <<3, 3>>, strd |-> <<2, 1>>, padding |-> <<1, 1>>],
       [cout |-> NumCh, kernel |-> <<3, 3>>, strd |-> <<2, 2>>, padding |-> <<1, 1>>] >>

\* self.conv_post of DiscriminatorR
DR_conv_post == [cout |-> 1, kernel |-> <<3, 3>>, strd |-> <<1, 1>>, padding |-> <<1, 1>>]

DiscriminatorR_init(resolution, num_embeddings, m) ==
    [cls |-> "R", id |-> m, resolution |-> resolution,
     emb |-> IF num_embeddings = None THEN None
             ELSE ZeroEmbedding(num_embeddings[1], NumCh)]

\* e^(-2 pi i k n / n_fft), which is real (1 or -1) for n_fft <= 2, the FFT
\* sizes the resolutions below use; k, n are 0-based
Twiddle(k, n, n_fft) == IF ((2 * k * n) \div n_fft) % 2 = 0 THEN 1 ELSE -1

\* window=None: ones(win_length), zero-padded on both sides to n_fft
Window(n, n_fft, win_length) ==
    LET left == (n_fft - win_length) \div 2
    IN IF n >= left /\ n < left + win_length THEN 1 ELSE 0

\* center=True pads n_fft // 2 samples by reflection on both sides
SpectrogramDefined(t, resolution) == ReflectDefined(t, resolution[1] \div 2)

\* torch.stft(...).abs() :: (B, T) -> (B, Freq, Frame), one-sided
spectrogram(x, resolution) ==
    LET n_fft == resolution[1]
        hop_length == resolution[2]
        win_length == resolution[3]
        xp == Vector(Len(x), LAMBDA b :
                 PadReflectLeft(PadReflectRight(x[b], n_fft \div 2), n_fft \div 2))
        frames == 1 + ((Len(xp[1]) - n_fft) \div hop_length)
    IN Vector(Len(x), LAMBDA b :
         Vector((n_fft \div 2) + 1, LAMBDA k :
           Vector(frames, LAMBDA f :
              Abs(Sum([n \in 1..n_fft |->
                         Window(n - 1, n_fft, win_length)
                         * xp[b][(f - 1) * hop_length + n]
                         * Twiddle(k - 1, n - 1, n_fft)],
                      1, n_fft)))))

\* the loop over self.convs: fmap collects every activation
RECURSIVE DR_conv_loop(_, _, _, _)
DR_conv_loop(d, x, fmap, i) ==
    IF i > Len(DR_convs) THEN [x |-> x, fmap |-> fmap]
    ELSE LET c == DR_convs[i]
             x1 == LeakyReluT(Conv2d(x, d.id, i, c.cout, c.kernel, c.strd, c.padding,
                                     Pow(lrelu_den, i - 1)))
         IN DR_conv_loop(d, x1, Append(fmap, x1), i + 1)

DiscriminatorR_forward(d, x, cond_embedding_id) ==
    IF ~SpectrogramDefined(Len(x[1]), d.resolution) THEN Failure("RuntimeError: reflect pad")
    ELSE
    LET spec == spectrogram(x, d.resolution)
        \* .unsqueeze(1)
        cv == DR_conv_loop(d, Vector(Len(x), LAMBDA b : <<spec[b]>>), <<>>, 1)
        bias == CondBias(d, cv.x, cond_embedding_id)
    IN IF ~bias.ok THEN bias
       ELSE
       LET post == Conv2d(cv.x, d.id, NumConvs + 1, DR_conv_post.cout, DR_conv_post.kernel,
                          DR_conv_post.strd, DR_conv_post.padding, Pow(lrelu_den, NumConvs))
           xb == AddBias(post, bias)
       IN [ok |-> TRUE, score |-> Flatten(xb), fmap |-> Append(cv.fmap, xb)]

\* -------------------------------------------------------------- ensembles
MultiPeriodDiscriminator_init(periods, num_embeddings) ==
    [i \in 1..Len(periods) |-> DiscriminatorP_init(periods[i], num_embeddings, i)]

MultiResolutionDiscriminator_init(resolutions, num_embeddings) ==
    [i \in 1..Len(resolutions) |-> DiscriminatorR_init(resolutions[i], num_embeddings, i)]

\* y_d_rs, y_d_gs, fmap_rs, fmap_gs = [], [], [], []
EmptyOut == [ok |-> TRUE, y_d_rs |-> <<>>, y_d_gs |-> <<>>, fmap_rs |-> <<>>, fmap_gs |-> <<>>]

\* "for d in self.discriminators" of MultiPeriodDiscriminator.forward: an
\* exception raised by either call leaves the loop and the forward, and
\* nothing is returned
RECURSIVE MPD_loop(_, _, _, _, _, _)
MPD_loop(ds, y, y_hat, bandwidth_id, i, out) ==
    IF i > Len(ds) THEN out
    ELSE LET r == DiscriminatorP_forward(ds[i], y, bandwidth_id)
         IN IF ~r.ok THEN r
            ELSE LET g == DiscriminatorP_forward(ds[i], y_hat, bandwidth_id)
                 IN IF ~g.ok THEN g
                    ELSE MPD_loop(ds, y, y_hat, bandwidth_id, i + 1,
                            [ok |-> TRUE,
                             y_d_rs |-> Append(out.y_d_rs, r.score),
                             y_d_gs |-> Append(out.y_d_gs, g.score),
                             fmap_rs |-> Append(out.fmap_rs, r.fmap),
                             fmap_gs |-> Append(out.fmap_gs, g.fmap)])

\* a forward that hands the generated batch in as the real one
MultiPeriodDiscriminator_forward_swapped(ds, y, y_hat, bandwidth_id) ==
    MPD_loop(ds, y_hat, y, bandwidth_id, 1, EmptyOut)

MultiPeriodDiscriminator_forward(ds, y, y_hat, bandwidth_id) ==
    MPD_loop(ds, y, y_hat, bandwidth_id, 1, EmptyOut)

\* "for d in self.discriminators" of MultiResolutionDiscriminator.forward
RECURSIVE MRD_loop(_, _, _, _, _, _)
MRD_loop(ds, y, y_hat, bandwidth_id, i, out) ==
    IF i > Len(ds) THEN out
    ELSE LET r == DiscriminatorR_forward(ds[i], y, bandwidth_id)
         IN IF ~r.ok THEN r
            ELSE LET g == DiscriminatorR_forward(ds[i], y_hat, bandwidth_id)
                 IN IF ~g.ok THEN g
                    ELSE MRD_loop(ds, y, y_hat, bandwidth_id, i + 1,
                            [ok |-> TRUE,
                             y_d_rs |-> Append(out.y_d_rs, r.score),
                             y_d_gs |-> Append(out.y_d_gs, g.score),
                             fmap_rs |-> Append(out.fmap_rs, r.fmap),
                             fmap_gs |-> Append(out.fmap_gs, g.fmap)])

MultiResolutionDiscriminator_forward(ds, y, y_hat, bandwidth_id) ==
    MRD_loop(ds, y, y_hat, bandwidth_id, 1, EmptyOut)

\* ------------------------------------------------------------------ state
VARIABLES
    ensemble,        \* "MPD" or "MRD": the class of the constructed ensemble
    params,          \* the periods / resolutions it was constructed from
    num_embeddings,  \* the constructor's num_embeddings (None: unconditional)
    discriminators,  \* self.discriminators, with each member's emb.weight
    y,               \* the real waveform batch (B, T)
    y_hat,           \* the generated waveform batch (B, T)
    bandwidth_id,    \* the conditioning ids, or None
    ret,             \* what the last forward call returned or raised
    step             \* optimizer steps applied so far

vars == <<ensemble, params, num_embeddings, discriminators, y, y_hat, bandwidth_id, ret, step>>

\* periods the ensembles are constructed from
PeriodConfigs == { <<2, 3>>, <<3, 2>>, <<3>> }

\* (n_fft, hop_length, win_length) triplets the ensembles are constructed from
ResolutionConfigs == { << <<2, 1, 2>>, <<1, 1, 1>> >>, << <<1, 1, 1>>, <<2, 1, 2>> >>,
                       << <<2, 2, 1>> >> }

\* sample i of row b of the waveform batch drawn with seed s
Sample(s, b, i) == ((i * i + (b + 1) * i + s + b * b) % 7) - 3

Wave(s, B, T) == Vector(B, LAMBDA b : Vector(T, LAMBDA i : Sample(s, b, i)))

\* conditioning arguments: none, one id for the batch, one id per batch
\* element, and an id outside the table
CondIds(B) ==
    {None}
    \cup { <<e>> : e \in 0..NumEmbeddings }
    \cup (IF B >= 2 THEN { [b \in 1..B |-> (e + b - 1) % NumEmbeddings] : e \in 0..(NumEmbeddings - 1) }
          ELSE {})

NoCall == [op |-> "none"]

Init ==
    /\ ensemble \in {"MPD", "MRD"}
    /\ params \in (IF ensemble = "MPD" THEN PeriodConfigs ELSE ResolutionConfigs)
    /\ num_embeddings \in {None, Some(NumEmbeddings)}
    /\ discriminators = (IF ensemble = "MPD"
                         THEN MultiPeriodDiscriminator_init(params, num_embeddings)
                         ELSE MultiResolutionDiscriminator_init(params, num_embeddings))
    /\ \E T \in 1..MaxT, B \in 1..MaxBatch :
         /\ y = Wave(0, B, T)
         /\ y_hat = Wave(3, B, T)
         /\ bandwidth_id \in CondIds(B)
    /\ ret = NoCall
    /\ step = 0

\* a direct call of one DiscriminatorP, on the real batch
ForwardP(i) ==
    /\ ensemble = "MPD"
    /\ ret = NoCall
    /\ ret' = [op |-> "P", member |-> i,
               out |-> DiscriminatorP_forward(discriminators[i], y, bandwidth_id)]
    /\ UNCHANGED <<ensemble, params, num_embeddings, discriminators, y, y_hat, bandwidth_id, step>>

\* a direct call of one DiscriminatorR, on the real batch
ForwardR(i) ==
    /\ ensemble = "MRD"
    /\ ret = NoCall
    /\ ret' = [op |-> "R", member |-> i,
               out |-> DiscriminatorR_forward(discriminators[i], y, bandwidth_id)]
    /\ UNCHANGED <<ensemble, params, num_embeddings, discriminators, y, y_hat, bandwidth_id, step>>

MPDForward ==
    /\ ensemble = "MPD"
    /\ ret = NoCall
    /\ ret' = [op |-> "MPD",
               out |-> MultiPeriodDiscriminator_forward(discriminators, y, y_hat, bandwidth_id)]
    /\ UNCHANGED <<ensemble, params, num_embeddings, discriminators, y, y_hat, bandwidth_id, step>>

MRDForward ==
    /\ ensemble = "MRD"
    /\ ret = NoCall
    /\ ret' = [op |-> "MRD",
               out |-> MultiResolutionDiscriminator_forward(discriminators, y, y_hat, bandwidth_id)]
    /\ UNCHANGED <<ensemble, params, num_embeddings, discriminators, y, y_hat, bandwidth_id, step>>

\* the caller is done with what the last forward returned or raised and is
\* free to call again
Release ==
    /\ ret # NoCall
    /\ ret' = NoCall
    /\ UNCHANGED <<ensemble, params, num_embeddings, discriminators, y, y_hat, bandwidth_id, step>>

\* the update one optimizer step applies to emb.weight[e][c] of member m
Grad(m, e, c) == ((m + 2 * e + c * c) % 3) + 1

\* the external optimizer updates the learned embedding tables between
\* forward passes, once the outputs of the last pass have been consumed
Train ==
    /\ num_embeddings # None
    /\ ret # NoCall
    /\ step < MaxSteps
    /\ discriminators' =
         [m \in 1..Len(discriminators) |->
            [discriminators[m] EXCEPT !.emb =
                Vector(Len(@), LAMBDA e : Vector(Len(@[e]), LAMBDA c : @[e][c] + Grad(m, e, c)))]]
    /\ step' = step + 1
    /\ ret' = NoCall
    /\ UNCHANGED <<ensemble, params, num_embeddings, y, y_hat, bandwidth_id>>

Next ==
    \/ \E i \in 1..Len(discriminators) : ForwardP(i)
    \/ \E i \in 1..Len(discriminators) : ForwardR(i)
    \/ MPDForward
    \/ MRDForward
    \/ Release
    \/ Train

Spec == Init /\ [][Next]_vars

\* ----------------------------------------------------- reading a result
\* the last call was a direct call of one sub-discriminator
Called == ret.op \in {"P", "R"}

\* the last call was a call of the ensemble
CalledEnsemble == ret.op \in {"MPD", "MRD"}

\* the sub-discriminator the last direct call was made on
Member == discriminators[ret.member]

Conditional == num_embeddings # None

\* the length of the input waveforms
WaveLen == Len(y[1])

Forward(d, x, cond_embedding_id) ==
    IF d.cls = "P" THEN DiscriminatorP_forward(d, x, cond_embedding_id)
    ELSE DiscriminatorR_forward(d, x, cond_embedding_id)

\* the reflect padding d applies to a waveform of length WaveLen is defined
InputDefined(d) ==
    IF d.cls = "P"
    THEN WaveLen % d.period = 0 \/ ReflectDefined(WaveLen, DP_n_pad(WaveLen, d.period))
    ELSE SpectrogramDefined(WaveLen, d.resolution)

\* every id is a row of a table of NumEmbeddings rows
ValidIds(ids) == \A n \in 1..Len(ids) : ids[n] \in 0..(NumEmbeddings - 1)

TableIsZero(d) == \A e \in 1..Len(d.emb) : \A c \in 1..Len(d.emb[e]) : d.emb[e][c] = 0

\* the (B, 1, H, W) input of the conv stack of d for the waveform batch x
StackInput(d, x) ==
    IF d.cls = "P" THEN ViewPeriod(DP_pad(x, d.period), d.period)
    ELSE Vector(Len(x), LAMBDA b : <<spectrogram(x, d.resolution)[b]>>)

StackOf(d) == IF d.cls = "P" THEN DP_convs ELSE DR_convs

PostOf(d) == IF d.cls = "P" THEN DP_conv_post ELSE DR_conv_post

\* the activations of the conv layers k.. of d applied to x, then the
\* output of conv_post before any bias is added: NumConvs + 1 tensors
RECURSIVE LayerActs(_, _, _)
LayerActs(d, x, k) ==
    IF k > NumConvs
    THEN << Conv2d(x, d.id, k, PostOf(d).cout, PostOf(d).kernel, PostOf(d).strd,
                   PostOf(d).padding, Pow(lrelu_den, k - 1)) >>
    ELSE LET a == LeakyReluT(Conv2d(x, d.id, k, StackOf(d)[k].cout, StackOf(d)[k].kernel,
                                    StackOf(d)[k].strd, StackOf(d)[k].padding,
                                    Pow(lrelu_den, k - 1)))
         IN <<a>> \o LayerActs(d, a, k + 1)

\* Acts(d, x)[k] is the activation after conv layer k of d on the waveform
\* batch x, Acts(d, x)[NumConvs + 1] the output of conv_post
Acts(d, x) == LayerActs(d, StackInput(d, x), 1)

\* the bias of score entry n of batch element b: the channel-wise sum of
\* embedding row e (0-based) times the last activation act of element b
BiasTerm(d, act, e, b, n) ==
    Sum([c \in 1..Chan(act) |->
            d.emb[e + 1][c] * act[b][c][((n - 1) \div Cols(act)) + 1][((n - 1) % Cols(act)) + 1]],
        1, Chan(act))

LastOf(s) == s[Len(s)]

\* -------------------------------------------------------------- claims

C2_UnexpectedIdFails ==
    (ret # NoCall /\ ~Conditional /\ bandwidth_id # None) =>
        /\ ~ret.out.ok
        /\ DOMAIN ret.out = {"ok", "error"}
        /\ ret.out.error \in {"AttributeError: emb", "RuntimeError: reflect pad"}
        /\ (IF Called THEN InputDefined(Member)
            ELSE \A i \in 1..Len(discriminators) : InputDefined(discriminators[i]))
           => ret.out.error = "AttributeError: emb"

C2_Witness ==
    /\ CalledEnsemble /\ ~Conditional /\ bandwidth_id # None
    /\ Len(discriminators) = 2
    /\ ~ret.out.ok
    /\ ret.out.error = "AttributeError: emb"

\* C3: a successful ensemble forward returns four sequences of length N, the
\* number of configured periods / resolutions, and entry i of each is the
\* output of the member built from the i-th configured value: on y for the
\* first and third sequence, on y_hat for the second and fourth.
C3_EnsembleOrder ==
    (CalledEnsemble /\ ret.out.ok) =>
        /\ Len(discriminators) = Len(params)
        /\ Len(ret.out.y_d_rs) = Len(params)
        /\ Len(ret.out.y_d_gs) = Len(params)
        /\ Len(ret.out.fmap_rs) = Len(params)
        /\ Len(ret.out.fmap_gs) = Len(params)
        /\ \A i \in 1..Len(params) :
            LET d == discriminators[i]
                r == Forward(d, y, bandwidth_id)
                g == Forward(d, y_hat, bandwidth_id)
            IN /\ d.id = i
               /\ IF ensemble = "MPD" THEN d.cls = "P" /\ d.period = params[i]
                  ELSE d.cls = "R" /\ d.resolution = params[i]
               /\ ret.out.y_d_rs[i] = r.score
               /\ ret.out.y_d_gs[i] = g.score
               /\ ret.out.fmap_rs[i] = r.fmap
               /\ ret.out.fmap_gs[i] = g.fmap

\* a successful call of a two-member ensemble made after an earlier call and
\* an optimizer step, with member outputs that tell the positions apart
C3_Witness ==
    /\ CalledEnsemble /\ ret.out.ok
    /\ Len(params) = 2
    /\ step > 0
    /\ ret.out.y_d_rs[1] # ret.out.y_d_rs[2]
    /\ ret.out.y_d_rs # ret.out.y_d_gs

\* C4: where the tail padding of DiscriminatorP.forward is defined, the
\* padded length is the smallest multiple of the period >= T, the first T
\* samples are unchanged and padded sample T+k (k = 1..n_pad, 1-based) is
\* sample T-k: a reflection that does not repeat the last sample.
C4_ReflectPadding ==
    (ret.op = "P" /\ InputDefined(Member)) =>
        LET p == Member.period
            xp == DP_pad(y, p)
        IN \A b \in 1..Len(y) :
            /\ Len(xp[b]) % p = 0
            /\ Len(xp[b]) >= WaveLen
            /\ Len(xp[b]) - p < WaveLen
            /\ Len(xp[b]) = DP_frames(WaveLen, p) * p
            /\ \A i \in 1..WaveLen : xp[b][i] = y[b][i]
            /\ \A k \in 1..(Len(xp[b]) - WaveLen) : xp[b][WaveLen + k] = y[b][WaveLen - k]

\* a call that padded by two samples or more
C4_Witness ==
    /\ ret.op = "P" /\ ret.out.ok
    /\ WaveLen % Member.period # 0
    /\ DP_n_pad(WaveLen, Member.period) >= 2

\* C5: a successful forward returns 5 feature maps from DiscriminatorP (the
\* activations of conv layers 2..5 in layer order, then the one-channel
\* post-conv tensor) and 6 from DiscriminatorR (the activations of conv
\* layers 1..5, then the post-conv tensor), whatever the input length, the
\* batch size and the conditioning.
C5_FmapLayout ==
    (Called /\ ret.out.ok) =>
        LET d == Member
            fmap == ret.out.fmap
            skip == IF d.cls = "P" THEN 1 ELSE 0
            acts == Acts(d, y)
        IN /\ Len(fmap) = (IF d.cls = "P" THEN 5 ELSE 6)
           /\ Len(fmap) = NumConvs - skip + 1
           /\ \A k \in 1..(NumConvs - skip) : fmap[k] = acts[k + skip]
           /\ Len(LastOf(fmap)) = Len(y)
           /\ Chan(LastOf(fmap)) = 1
           /\ Rows(LastOf(fmap)) = Rows(acts[NumConvs])
           /\ Cols(LastOf(fmap)) = Cols(acts[NumConvs])
           /\ bandwidth_id = None => LastOf(fmap) = acts[NumConvs + 1]

\* a successful conditioned call of a DiscriminatorP on a batch of two
C5_Witness ==
    /\ ret.op = "P" /\ ret.out.ok
    /\ bandwidth_id # None
    /\ Len(y) = 2
    /\ Len(ret.out.fmap) = 5

\* C6: while the embedding table is as the constructor left it (no
\* optimizer step yet) it is all zero, and a conditioned forward with a
\* valid id succeeds wherever the unconditional one does and returns the
\* same score and the same feature maps as the unconditional forward.
C6_ZeroEmbeddingNoOp ==
    (Called /\ Conditional /\ bandwidth_id # None /\ step = 0) =>
        /\ (Len(bandwidth_id) = 1 /\ ValidIds(bandwidth_id) /\ InputDefined(Member)) => ret.out.ok
        /\ ret.out.ok =>
            /\ ret.out = Forward(Member, y, None)
            /\ ret.out.score = Flatten(LastOf(ret.out.fmap))

\* a successful conditioned call on a batch of two, before any optimizer step
C6_Witness ==
    /\ Called /\ Conditional /\ bandwidth_id # None /\ step = 0
    /\ Len(y) = 2
    /\ ret.out.ok

\* the frame count after one stride-3, kernel-5, padding-2 layer
G(n) == ((n - 1) \div 3) + 1

CeilDiv(a, b) == (a + b - 1) \div b

\* C7: every row of the score of DiscriminatorP.forward has length
\* p * g(g(g(g(ceil(T/p))))); for p = 2 and T = 4000 the final conv sees 25
\* frames of 2 and the row has length 50.
C7_ScoreLength ==
    /\ (ret.op = "P" /\ ret.out.ok) =>
          /\ Len(ret.out.score) = Len(y)
          /\ \A b \in 1..Len(y) :
                /\ Len(ret.out.score[b])
                     = Member.period * G(G(G(G(CeilDiv(WaveLen, Member.period)))))
                /\ Len(ret.out.score[b]) = DP_score_len(WaveLen, Member.period)
    /\ ConvFrames(DP_convs, DP_frames(4000, 2), 1) = 25
    /\ DP_score_len(4000, 2) = 50
    /\ \A t \in {27, 28, 163, 164} : \A p \in {2, 3} :
          DP_score_len(t, p) = p * G(G(G(G(CeilDiv(t, p)))))

\* a successful call on a waveform that had to be padded to three frames
C7_Witness ==
    /\ ret.op = "P" /\ ret.out.ok
    /\ WaveLen % Member.period # 0
    /\ CeilDiv(WaveLen, Member.period) >= 3

\* C8 as stated: the last feature map is the post-conv output as it was
\* before the bias was added, so it is the last feature map of the
\* unconditional forward and the score is that map plus the bias term.
C8_LastFmapIsPreBias ==
    (Called /\ ret.out.ok /\ bandwidth_id # None) =>
        LET fmap == ret.out.fmap
            act == fmap[Len(fmap) - 1]
        IN /\ LastOf(fmap) = Acts(Member, y)[NumConvs + 1]
           /\ \A b \in 1..Len(y) : \A n \in 1..Len(ret.out.score[b]) :
                ret.out.score[b][n]
                  = Flatten(LastOf(fmap))[b][n] + BiasTerm(Member, act, bandwidth_id[1], b, n)

\* C9 as stated: a batch of ids, one per batch element, makes the forward
\* succeed.
C9_PerElementIdsSucceed ==
    (Called /\ Conditional /\ bandwidth_id # None /\ Len(bandwidth_id) = Len(y)
       /\ ValidIds(bandwidth_id) /\ InputDefined(Member)) => ret.out.ok

\* C9 amended: with conditioning enabled, valid ids and a defined padding,
\* the forward succeeds exactly when the conditioning id holds one index
\* (shared by the whole batch; one index per element works for B = 1 only).
\* Then the score has B rows, and row b is the post-conv output of element b
\* plus the channel-wise sum of the selected embedding row times element
\* b's own last activation.
C9_SingleIdBias ==
    (Called /\ Conditional /\ bandwidth_id # None /\ ValidIds(bandwidth_id)
       /\ InputDefined(Member)) =>
        /\ ret.out.ok <=> Len(bandwidth_id) = 1
        /\ ~ret.out.ok => ret.out.error = "RuntimeError: broadcast"
        /\ ret.out.ok =>
            LET acts == Acts(Member, y)
                act == acts[NumConvs]
                post == Flatten(acts[NumConvs + 1])
            IN /\ Len(ret.out.score) = Len(y)
               /\ \A b \in 1..Len(y) :
                    /\ Len(ret.out.score[b]) = Len(post[b])
                    /\ \A n \in 1..Len(post[b]) :
                         ret.out.score[b][n]
                           = post[b][n] + BiasTerm(Member, act, bandwidth_id[1], b, n)

\* a conditioned call on a batch of two whose bias terms are not zero and
\* differ between the two elements
C9_Witness ==
    /\ Called /\ Conditional /\ bandwidth_id # None /\ ret.out.ok
    /\ Len(y) = 2
    /\ ~TableIsZero(Member)
    /\ LET post == Flatten(Acts(Member, y)[NumConvs + 1])
       IN /\ ret.out.score[1][1] # post[1][1]
          /\ ret.out.score[1][1] - post[1][1] # ret.out.score[2][1] - post[2][1]

\* C10: the pad amount of DiscriminatorP.forward lies in 1..period-1 whenever
\* padding happens, is smaller than T for every T >= period, and the padding
\* fails exactly when T < period and period - T >= T.
C10_PadAmount ==
    ret.op = "P" =>
        LET p == Member.period
            n_pad == DP_n_pad(WaveLen, p)
        IN /\ WaveLen % p # 0 => n_pad \in 1..(p - 1)
           /\ (WaveLen % p # 0 /\ WaveLen >= p) => (n_pad < WaveLen /\ ReflectDefined(WaveLen, n_pad))
           /\ (~ret.out.ok /\ ret.out.error = "RuntimeError: reflect pad")
                <=> (WaveLen < p /\ p - WaveLen >= WaveLen)

\* a call whose padding was undefined
C10_Witness ==
    /\ ret.op = "P" /\ ~ret.out.ok
    /\ ret.out.error = "RuntimeError: reflect pad"
    /\ WaveLen < Member.period

====
